---- MODULE Spec2Model ----
(***************************************************************************)
(* Model of the SeaweedFS cluster API server (src/api/api.py).             *)
(*                                                                         *)
(* The server is a single-threaded socketserver.TCPServer: one request is  *)
(* handled at a time.  A request is received, do_GET / do_POST / do_DELETE *)
(* selects a handler from the path, and the handler calls the helper       *)
(* functions, which talk to the container engine (curl on the docker       *)
(* socket), to the probed node (urllib) and to the storage gateway         *)
(* (requests / boto3).  The answers of those three parties are the         *)
(* environment's choice.                                                   *)
(***************************************************************************)
EXTENDS Integers, Sequences, FiniteSets, TLC

VARIABLES
    engine,   \* container engine: full container name -> "running" | "exited"
    store,    \* storage gateway: bucket -> "absent" | [key -> Text | NoObject]
    pc,       \* "idle" | "dispatch" | "done" | "hung"
    req,      \* the request being handled
    pass,     \* which of do_GET's two dispatch chains is running (1 or 2)
    calls,    \* downstream calls issued while handling req, in order
    resps     \* responses written to the client for req, in order

vars == <<engine, store, pc, req, pass, calls, resps>>

(***************************************************************************)
(* Bounds of the model.                                                    *)
(***************************************************************************)
\* Longest request body offered by a client, in characters.
MaxBodyLen == 2

(***************************************************************************)
(* Small helpers.                                                          *)
(***************************************************************************)
Max(a, b) == IF a >= b THEN a ELSE b
Min(a, b) == IF a <= b THEN a ELSE b

(***************************************************************************)
(* Text values.  A text is the prefix of length len of a named character   *)
(* stream, optionally followed by the three characters "...".  The stream  *)
(* "lorem" is the endless repetition of lorem_base followed by a blank;    *)
(* the other streams are request bodies sent by clients.                   *)
(***************************************************************************)
EmptyText == [src |-> "", len |-> 0, dots |-> FALSE]

MkText(s, n) == IF n <= 0 THEN EmptyText ELSE [src |-> s, len |-> n, dots |-> FALSE]

\* len(content)
TextLen(t) == t.len + (IF t.dots THEN 3 ELSE 0)

\* content[:n] for n >= 0 on a text without ellipsis
TextPrefix(t, n) == MkText(t.src, Min(t.len, n))

\* content + "..."
TextDots(t) == [src |-> t.src, len |-> t.len, dots |-> TRUE]

NoObject == [src |-> "<none>", len |-> -1, dots |-> FALSE]
NoBody == EmptyText

(***************************************************************************)
(* Names.  TLA+ strings are atoms, so the lexical tests of the code         *)
(* (str.startswith) are computed on the spelling of a name as a sequence   *)
(* of tokens.                                                              *)
(***************************************************************************)
\* Container names a client may put in a path.
ReqNames ==
    {"master1", "volume1", "filer1", "s3", "unknownnode", "nginx",
     "seaweedfs-ha-demo-master1-1"}

Spelling(n) ==
    CASE n = "master1" -> <<"master", "1">>
      [] n = "master2" -> <<"master", "2">>
      [] n = "master3" -> <<"master", "3">>
      [] n = "volume1" -> <<"volume", "1">>
      [] n = "volume2" -> <<"volume", "2">>
      [] n = "volume3" -> <<"volume", "3">>
      [] n = "filer1" -> <<"filer", "1">>
      [] n = "filer2" -> <<"filer", "2">>
      [] n = "s3" -> <<"s3">>
      [] n = "seaweedfs-ha-demo-master1-1" -> <<"seaweedfs-ha-demo-", "master", "1", "-1">>
      [] n = "seaweedfs-ha-demo-filer1-1" -> <<"seaweedfs-ha-demo-", "filer", "1", "-1">>
      [] n = "seaweedfs-ha-demo-s3-1" -> <<"seaweedfs-ha-demo-", "s3", "-1">>
      [] OTHER -> <<n>>

\* short_name.startswith(prefix), for a prefix that is one token
startswith(n, prefix) == Spelling(n)[1] = prefix

\* get_full_container_name with a table that lacks the filer rows
get_full_container_name_no_filer(short_name) ==
    CASE short_name = "master1" -> "seaweedfs-ha-demo-master1-1"
      [] short_name = "master2" -> "seaweedfs-ha-demo-master2-1"
      [] short_name = "master3" -> "seaweedfs-ha-demo-master3-1"
      [] short_name = "volume1" -> "seaweedfs-ha-demo-volume1-1"
      [] short_name = "volume2" -> "seaweedfs-ha-demo-volume2-1"
      [] short_name = "volume3" -> "seaweedfs-ha-demo-volume3-1"
      [] OTHER -> short_name

\* get_full_container_name: the static table, any other name unchanged
get_full_container_name(short_name) ==
    CASE short_name = "master1" -> "seaweedfs-ha-demo-master1-1"
      [] short_name = "master2" -> "seaweedfs-ha-demo-master2-1"
      [] short_name = "master3" -> "seaweedfs-ha-demo-master3-1"
      [] short_name = "volume1" -> "seaweedfs-ha-demo-volume1-1"
      [] short_name = "volume2" -> "seaweedfs-ha-demo-volume2-1"
      [] short_name = "volume3" -> "seaweedfs-ha-demo-volume3-1"
      [] short_name = "filer1" -> "seaweedfs-ha-demo-filer1-1"
      [] short_name = "filer2" -> "seaweedfs-ha-demo-filer2-1"
      [] OTHER -> short_name

(***************************************************************************)
(* Paths.  The path of a request is "/" followed by its segments joined    *)
(* with "/"; it is kept as the sequence of segments.  An empty last        *)
(* segment is a trailing slash.                                            *)
(***************************************************************************)
\* s.strip('/') on the segments: drop empty segments at both ends
RECURSIVE StripLeft(_)
StripLeft(s) == IF s # <<>> /\ Head(s) = "" THEN StripLeft(Tail(s)) ELSE s

RECURSIVE StripRight(_)
StripRight(s) ==
    IF s # <<>> /\ s[Len(s)] = "" THEN StripRight(SubSeq(s, 1, Len(s) - 1)) ELSE s

\* parsed_path.path.strip('/').split('/'): the empty string splits to ['']
path_parts(path) ==
    LET t == StripRight(StripLeft(path))
    IN  IF t = <<>> THEN <<"">> ELSE t

\* '/'.join(path_parts[5:]), kept as the sequence of the joined segments
object_key(parts) == SubSeq(parts, 6, Len(parts))

Route(h, a, b) == [h |-> h, a |-> a, b |-> b]
None == "<none>"

\* do_GET with the bare health route reading the name at the api route's index
do_GET_bare_index(path) ==
    LET p == path_parts(path)
    IN  IF path = <<"health">> THEN Route("handle_health_check", None, <<>>)
        ELSE IF path = <<"api", "docs", "openapi.json">> THEN Route("serve_openapi_spec", None, <<>>)
        ELSE IF path = <<"api", "docs">> THEN Route("handle_api_docs", None, <<>>)
        ELSE IF path = <<"s3-operations">> THEN Route("handle_s3_operations", None, <<>>)
        ELSE IF Len(p) >= 4 /\ p[1] = "api" /\ p[2] = "containers" /\ p[4] = "health"
            THEN Route("handle_container_health", p[3], <<>>)
        ELSE IF Len(p) >= 3 /\ p[1] = "api" /\ p[2] = "containers"
            THEN Route("handle_container_status", p[3], <<>>)
        ELSE IF Len(p) >= 3 /\ p[1] = "containers" /\ p[3] = "health"
            THEN Route("handle_container_health", p[3], <<>>)
        ELSE IF Len(p) >= 2 /\ p[1] = "containers"
            THEN Route("handle_container_status", p[2], <<>>)
        ELSE IF Len(p) >= 5 /\ p[1] = "api" /\ p[2] = "s3" /\ p[3] = "buckets"
            THEN Route("handle_s3_object_read", p[4], object_key(p))
        ELSE Route("send_error_404", None, <<>>)

\* do_GET handing a storage path to the delete handler
do_GET_deleting(path) ==
    LET p == path_parts(path)
    IN  IF path = <<"health">> THEN Route("handle_health_check", None, <<>>)
        ELSE IF path = <<"api", "docs", "openapi.json">> THEN Route("serve_openapi_spec", None, <<>>)
        ELSE IF path = <<"api", "docs">> THEN Route("handle_api_docs", None, <<>>)
        ELSE IF path = <<"s3-operations">> THEN Route("handle_s3_operations", None, <<>>)
        ELSE IF Len(p) >= 4 /\ p[1] = "api" /\ p[2] = "containers" /\ p[4] = "health"
            THEN Route("handle_container_health", p[3], <<>>)
        ELSE IF Len(p) >= 3 /\ p[1] = "api" /\ p[2] = "containers"
            THEN Route("handle_container_status", p[3], <<>>)
        ELSE IF Len(p) >= 3 /\ p[1] = "containers" /\ p[3] = "health"
            THEN Route("handle_container_health", p[2], <<>>)
        ELSE IF Len(p) >= 2 /\ p[1] = "containers"
            THEN Route("handle_container_status", p[2], <<>>)
        ELSE IF Len(p) >= 5 /\ p[1] = "api" /\ p[2] = "s3" /\ p[3] = "buckets"
            THEN Route("handle_s3_object_delete", p[4], object_key(p))
        ELSE Route("send_error_404", None, <<>>)

\* one if/elif chain of do_GET; do_GET runs the same chain twice (see Return)
do_GET(path) ==
    LET p == path_parts(path)
    IN  IF path = <<"health">> THEN Route("handle_health_check", None, <<>>)
        ELSE IF path = <<"api", "docs", "openapi.json">> THEN Route("serve_openapi_spec", None, <<>>)
        ELSE IF path = <<"api", "docs">> THEN Route("handle_api_docs", None, <<>>)
        ELSE IF path = <<"s3-operations">> THEN Route("handle_s3_operations", None, <<>>)
        ELSE IF Len(p) >= 4 /\ p[1] = "api" /\ p[2] = "containers" /\ p[4] = "health"
            THEN Route("handle_container_health", p[3], <<>>)
        ELSE IF Len(p) >= 3 /\ p[1] = "api" /\ p[2] = "containers"
            THEN Route("handle_container_status", p[3], <<>>)
        ELSE IF Len(p) >= 3 /\ p[1] = "containers" /\ p[3] = "health"
            THEN Route("handle_container_health", p[2], <<>>)
        ELSE IF Len(p) >= 2 /\ p[1] = "containers"
            THEN Route("handle_container_status", p[2], <<>>)
        ELSE IF Len(p) >= 5 /\ p[1] = "api" /\ p[2] = "s3" /\ p[3] = "buckets"
            THEN Route("handle_s3_object_read", p[4], object_key(p))
        ELSE Route("send_error_404", None, <<>>)

do_POST(path) ==
    LET p == path_parts(path)
    IN  IF Len(p) >= 3 /\ p[1] = "api" /\ p[2] = "containers"
            THEN Route("handle_container_start", p[3], <<>>)
        ELSE IF Len(p) >= 2 /\ p[1] = "containers"
            THEN Route("handle_container_start", p[2], <<>>)
        ELSE IF Len(p) >= 5 /\ p[1] = "api" /\ p[2] = "s3" /\ p[3] = "buckets"
            THEN Route("handle_s3_object_create", p[4], object_key(p))
        ELSE Route("send_error_404", None, <<>>)

do_DELETE(path) ==
    LET p == path_parts(path)
    IN  IF Len(p) >= 3 /\ p[1] = "api" /\ p[2] = "containers"
            THEN Route("handle_container_stop", p[3], <<>>)
        ELSE IF Len(p) >= 2 /\ p[1] = "containers"
            THEN Route("handle_container_stop", p[2], <<>>)
        ELSE IF Len(p) >= 5 /\ p[1] = "api" /\ p[2] = "s3" /\ p[3] = "buckets"
            THEN Route("handle_s3_object_delete", p[4], object_key(p))
        ELSE Route("send_error_404", None, <<>>)

\* BaseHTTPRequestHandler calls do_<METHOD>
Dispatch(method, path) ==
    CASE method = "GET" -> do_GET(path)
      [] method = "POST" -> do_POST(path)
      [] method = "DELETE" -> do_DELETE(path)

(***************************************************************************)
(* The container engine, reached with curl over the docker socket.         *)
(* A curl run is described by what subprocess.run hands back: an exception *)
(* (exc), or a return code and the captured stdout.                        *)
(***************************************************************************)
\* Containers the engine knows.  Every other name is unknown to it.
EngineContainers ==
    {"seaweedfs-ha-demo-master1-1", "seaweedfs-ha-demo-filer1-1", "nginx"}

\* What can go wrong with a curl run, chosen by the environment.
InspectFaults ==
    {"none", "OSError", "TimeoutExpired", "exit_nonzero", "empty",
     "garbage", "json_list", "json_state_null"}
MutateFaults ==
    {"none", "OSError", "TimeoutExpired", "TimeoutExpired_applied", "exit_nonzero", "http_500"}

CurlResult(exc, returncode, stdout, http) ==
    [exc |-> exc, returncode |-> returncode, stdout |-> stdout, http |-> http]

\* curl -s --unix-socket /var/run/docker.sock http://localhost/containers/{name}/json
\* Without -f curl exits 0 whatever the HTTP status of the engine's answer.
EngineInspect(name, eng, fault) ==
    CASE fault = "OSError" -> CurlResult("OSError", -1, "", 0)
      [] fault = "TimeoutExpired" -> CurlResult("TimeoutExpired", -1, "", 0)
      [] fault = "exit_nonzero" -> CurlResult("none", 7, "", 0)
      [] fault = "empty" -> CurlResult("none", 0, "", 200)
      [] fault = "garbage" -> CurlResult("none", 0, "garbage", 200)
      [] fault = "json_list" -> CurlResult("none", 0, "json_list", 200)
      [] fault = "json_state_null" -> CurlResult("none", 0, "json_state_null", 200)
      [] OTHER ->
            IF name \in DOMAIN eng
            THEN CurlResult("none", 0,
                     IF eng[name] = "running" THEN "json_running" ELSE "json_not_running", 200)
            ELSE CurlResult("none", 0, "json_error_message", 404)

\* curl -s -X POST ... /containers/{name}/start (or /stop): the engine's answer
EngineMutateHttp(name, eng, target, fault) ==
    CASE fault = "http_500" -> 500
      [] fault \in {"OSError", "exit_nonzero"} -> 0
      [] name \notin DOMAIN eng -> 404
      [] eng[name] = target -> 304
      [] OTHER -> 204

EngineMutate(name, eng, target, fault) ==
    CASE fault = "OSError" -> CurlResult("OSError", -1, "", 0)
      [] fault \in {"TimeoutExpired", "TimeoutExpired_applied"} ->
            CurlResult("TimeoutExpired", -1, "", 0)
      [] fault = "exit_nonzero" -> CurlResult("none", 7, "", 0)
      [] OTHER -> CurlResult("none", 0, "", EngineMutateHttp(name, eng, target, fault))

\* the engine's state after the mutation call
EngineAfter(name, eng, target, fault) ==
    IF name \in DOMAIN eng /\ fault \in {"none", "TimeoutExpired_applied"}
    THEN [eng EXCEPT ![name] = target]
    ELSE eng

\* json.loads(result.stdout) followed by .get('State', {}).get('Running', False)
\* "JSONDecodeError" and "AttributeError" stand for the exception raised.
json_running_flag(stdout) ==
    CASE stdout = "garbage" -> "JSONDecodeError"
      [] stdout = "json_list" -> "AttributeError"
      [] stdout = "json_state_null" -> "AttributeError"
      [] stdout = "json_error_message" -> "False"
      [] stdout = "json_not_running" -> "False"
      [] stdout = "json_running" -> "True"

\* One downstream call: the party, the operation, its target, what the
\* environment did to it (fault), the HTTP status answered (0: no answer)
\* and what the calling helper made of it (out).
Call(to, op, target, fault, http, out) ==
    [to |-> to, op |-> op, target |-> target, fault |-> fault, http |-> http, out |-> out]

\* A helper's outcome: its return value ("RAISE" when an exception leaves it),
\* the downstream calls it issued, and the text of the exception if any.
Outcome(ret, cs) == [ret |-> ret, calls |-> cs]

get_container_status(short_name, eng, fault) ==
    LET container_name == get_full_container_name(short_name)
        result == EngineInspect(container_name, eng, fault)
        ret ==
            IF result.exc = "OSError" THEN "RAISE"
            ELSE IF result.exc = "TimeoutExpired" THEN "not_found"
            ELSE IF result.returncode = 0 /\ result.stdout # ""
            THEN LET flag == json_running_flag(result.stdout)
                 IN  IF flag = "JSONDecodeError" THEN "not_found"
                     ELSE IF flag = "AttributeError" THEN "RAISE"
                     ELSE IF flag = "True" THEN "running"
                     ELSE "stopped"
            ELSE "not_found"
    IN  Outcome(ret, <<Call("engine", "inspect", <<container_name>>, fault, result.http, ret)>>)

\* start_container / stop_container share their shape: op is "start" or "stop"
mutate_container(short_name, eng, fault, op, done) ==
    LET container_name == get_full_container_name(short_name)
        target == IF op = "start" THEN "running" ELSE "exited"
        result == EngineMutate(container_name, eng, target, fault)
        ret ==
            IF result.exc = "OSError" THEN "RAISE"
            ELSE IF result.exc = "TimeoutExpired" THEN "failed"
            ELSE IF result.returncode = 0 THEN done
            ELSE "failed"
    IN  Outcome(ret, <<Call("engine", op, <<container_name>>, fault, result.http, ret)>>)

start_container(short_name, eng, fault) ==
    mutate_container(short_name, eng, fault, "start", "started")

stop_container(short_name, eng, fault) ==
    mutate_container(short_name, eng, fault, "stop", "stopped")

(***************************************************************************)
(* The health probe: urllib.request.urlopen(req, timeout=5) on the node.   *)
(***************************************************************************)
\* what urlopen meets, chosen by the environment
ProbeOutcomes == {"http_200", "http_403", "http_500", "URLError", "timeout", "BadStatusLine"}

ProbeUrl(host, port, path) == <<host, port, path>>

ProbeHttp(probe) ==
    CASE probe = "http_200" -> 200
      [] probe = "http_403" -> 403
      [] probe = "http_500" -> 500
      [] OTHER -> 0

\* the try/except around urlopen: a 2xx answer returns 'healthy'; HTTPError
\* (4xx, 5xx), URLError and OSError (a timeout) are caught; http.client's
\* BadStatusLine is none of the three and leaves the function
probe_verdict(probe) ==
    CASE probe = "http_200" -> "healthy"
      [] probe \in {"http_403", "http_500", "URLError", "timeout"} -> "unhealthy"
      [] OTHER -> "RAISE"

probe_node(url, probe) ==
    <<Call("node", "probe", url, probe, ProbeHttp(probe), probe_verdict(probe))>>

\* check_container_health probing whatever the status query answered
check_container_health_no_gate(short_name, eng, fault, probe) ==
    LET status == get_container_status(short_name, eng, fault)
        url ==
            IF startswith(short_name, "master") THEN ProbeUrl(short_name, 9333, "/cluster/status")
            ELSE IF startswith(short_name, "volume") THEN ProbeUrl(short_name, 8080, "/status")
            ELSE ProbeUrl(short_name, 8888, "/")
    IN  IF status.ret = "RAISE" THEN Outcome("RAISE", status.calls)
        ELSE IF startswith(short_name, "master") \/ startswith(short_name, "volume")
                \/ startswith(short_name, "filer")
        THEN Outcome(probe_verdict(probe), status.calls \o probe_node(url, probe))
        ELSE Outcome("unhealthy", status.calls)

check_container_health(short_name, eng, fault, probe) ==
    LET status == get_container_status(short_name, eng, fault)
    IN  IF status.ret = "RAISE" THEN Outcome("RAISE", status.calls)
        ELSE IF status.ret # "running" THEN Outcome("unhealthy", status.calls)
        ELSE IF startswith(short_name, "master")
        THEN Outcome(probe_verdict(probe),
                 status.calls \o probe_node(ProbeUrl(short_name, 9333, "/cluster/status"), probe))
        ELSE IF startswith(short_name, "volume")
        THEN Outcome(probe_verdict(probe),
                 status.calls \o probe_node(ProbeUrl(short_name, 8080, "/status"), probe))
        ELSE IF startswith(short_name, "filer")
        THEN Outcome(probe_verdict(probe),
                 status.calls \o probe_node(ProbeUrl(short_name, 8888, "/"), probe))
        ELSE Outcome("unhealthy", status.calls)

(***************************************************************************)
(* The storage gateway (S3 API), reached with requests.put/get/delete,     *)
(* which are called without a timeout, and with boto3 for the listings.    *)
(***************************************************************************)
Buckets == {"demo", "logs"}
Keys == {<<"file.txt">>}

\* the order in which the gateway lists buckets and keys
BucketOrder == <<"demo", "logs">>
KeyOrder == <<<<"file.txt">>>>

NoBucket == [exists |-> FALSE, objs |-> [k \in Keys |-> NoObject]]
EmptyBucket == [exists |-> TRUE, objs |-> [k \in Keys |-> NoObject]]

\* what can go wrong with one requests.* call, chosen by the environment
GwFaults == {"none", "http_500", "ConnectionError", "hang"}

GwReply(http, text, st) == [http |-> http, text |-> text, store |-> st]

\* PUT {base_url}/{bucket}
GwPutBucket(st, b, f) ==
    IF f = "http_500" THEN GwReply(500, EmptyText, st)
    ELSE IF st[b].exists THEN GwReply(409, EmptyText, st)
    ELSE GwReply(200, EmptyText, [st EXCEPT ![b] = EmptyBucket])

\* PUT {base_url}/{bucket}/{key}; with an empty key the URL is the bucket's
GwPutObject(st, b, k, content, f) ==
    IF f = "http_500" THEN GwReply(500, EmptyText, st)
    ELSE IF k = <<>> THEN GwPutBucket(st, b, f)
    ELSE IF ~st[b].exists THEN GwReply(404, EmptyText, st)
    ELSE GwReply(200, EmptyText, [st EXCEPT ![b].objs[k] = content])

ObjectCount(bucket) == Cardinality({k \in Keys : bucket.objs[k] # NoObject})

\* GET {base_url}/{bucket}/{key}; with an empty key the answer is the listing
GwGetObject(st, b, k, f) ==
    IF f = "http_500" THEN GwReply(500, EmptyText, st)
    ELSE IF ~st[b].exists THEN GwReply(404, EmptyText, st)
    ELSE IF k = <<>> THEN GwReply(200, MkText("listing", 1 + ObjectCount(st[b])), st)
    ELSE IF st[b].objs[k] = NoObject THEN GwReply(404, EmptyText, st)
    ELSE GwReply(200, st[b].objs[k], st)

\* DELETE {base_url}/{bucket}/{key}; deleting a missing key answers 204 as S3
\* does; with an empty key the bucket itself is the target
GwDeleteObject(st, b, k, f) ==
    IF f = "http_500" THEN GwReply(500, EmptyText, st)
    ELSE IF ~st[b].exists THEN GwReply(404, EmptyText, st)
    ELSE IF k = <<>>
    THEN IF ObjectCount(st[b]) > 0 THEN GwReply(409, EmptyText, st)
         ELSE GwReply(204, EmptyText, [st EXCEPT ![b] = NoBucket])
    ELSE GwReply(204, EmptyText, [st EXCEPT ![b].objs[k] = NoObject])

(***************************************************************************)
(* Object operations.                                                      *)
(***************************************************************************)
\* len(lorem_base.encode('utf-8'))
base_size == 445
\* bytes per KB in size_kb * 1024
KB == 1024
\* the size_kb default of handle_s3_object_create
DefaultSizeKb == 10
\* the preview length of read_bucket_object
PreviewLen == 500

\* content[:n] for a text of length full, n of either sign (Python slicing)
SliceLen(full, n) == IF n >= 0 THEN Min(full, n) ELSE Max(0, full + n)

generate_lorem_ipsum(size_kb) ==
    LET repetitions == Max(1, (size_kb * KB) \div base_size)
        full == (base_size + 1) * repetitions
    IN  MkText("lorem", SliceLen(full, size_kb * KB))

Bytes(n) == <<n, "bytes">>

\* A gateway operation's outcome: the dict it returns (Hang when a call
\* never returns), the calls it issued, the gateway's content afterwards.
GwOutcome(ret, cs, st) == [ret |-> ret, calls |-> cs, store |-> st]
Hang == [success |-> FALSE, hang |-> TRUE]

CreateFailed(detail) ==
    [success |-> FALSE, message |-> [text |-> "Failed to create object", detail |-> detail],
     size |-> Bytes(0)]

\* create_bucket_object going round once more (bucket-create, then write)
\* when the gateway rejects the write
create_bucket_object_again(bucket_name, object_key_, size_kb, st, f1, f2, exc) ==
    LET content == generate_lorem_ipsum(size_kb)
        r1 == GwPutBucket(st, bucket_name, f1)
        c1 == Call("gateway", "put_bucket", <<bucket_name>>, f1,
                   IF f1 \in {"ConnectionError", "hang"} THEN 0 ELSE r1.http, "")
        st1 == IF f1 \in {"ConnectionError", "hang"} THEN st ELSE r1.store
        r2 == GwPutObject(st1, bucket_name, object_key_, content, f2)
        c2 == Call("gateway", "put_object", <<bucket_name, object_key_>>, f2,
                   IF f2 \in {"ConnectionError", "hang"} THEN 0 ELSE r2.http, "")
    IN  IF f1 = "hang" THEN GwOutcome(Hang, <<c1>>, st)
        ELSE IF f1 = "ConnectionError" THEN GwOutcome(CreateFailed([exc |-> exc]), <<c1>>, st)
        ELSE IF f2 = "hang" THEN GwOutcome(Hang, <<c1, c2>>, st1)
        ELSE IF f2 = "ConnectionError" THEN GwOutcome(CreateFailed([exc |-> exc]), <<c1, c2>>, st1)
        ELSE IF r2.http \in {200, 201}
        THEN GwOutcome([success |-> TRUE,
                        message |-> [text |-> "created", key |-> object_key_,
                                     bucket |-> bucket_name],
                        size |-> Bytes(TextLen(content))],
                       <<c1, c2>>, r2.store)
        ELSE GwOutcome(CreateFailed([http |-> r2.http]), <<c1, c2, c1, c2>>, r2.store)

create_bucket_object(bucket_name, object_key_, size_kb, st, f1, f2, exc) ==
    LET content == generate_lorem_ipsum(size_kb)
        r1 == GwPutBucket(st, bucket_name, f1)
        c1 == Call("gateway", "put_bucket", <<bucket_name>>, f1,
                   IF f1 \in {"ConnectionError", "hang"} THEN 0 ELSE r1.http, "")
        st1 == IF f1 \in {"ConnectionError", "hang"} THEN st ELSE r1.store
        r2 == GwPutObject(st1, bucket_name, object_key_, content, f2)
        c2 == Call("gateway", "put_object", <<bucket_name, object_key_>>, f2,
                   IF f2 \in {"ConnectionError", "hang"} THEN 0 ELSE r2.http, "")
    IN  IF f1 = "hang" THEN GwOutcome(Hang, <<c1>>, st)
        ELSE IF f1 = "ConnectionError" THEN GwOutcome(CreateFailed([exc |-> exc]), <<c1>>, st)
        ELSE IF f2 = "hang" THEN GwOutcome(Hang, <<c1, c2>>, st1)
        ELSE IF f2 = "ConnectionError" THEN GwOutcome(CreateFailed([exc |-> exc]), <<c1, c2>>, st1)
        ELSE IF r2.http \in {200, 201}
        THEN GwOutcome([success |-> TRUE,
                        message |-> [text |-> "created", key |-> object_key_,
                                     bucket |-> bucket_name],
                        size |-> Bytes(TextLen(content))],
                       <<c1, c2>>, r2.store)
        ELSE GwOutcome(CreateFailed([http |-> r2.http]), <<c1, c2>>, r2.store)

ReadFailed(detail) ==
    [success |-> FALSE, content |-> EmptyText, size |-> Bytes(0), error |-> detail]

\* read_bucket_object reporting the length of the preview as the size
read_bucket_object_preview_size(bucket_name, object_key_, st, f, exc) ==
    LET r == GwGetObject(st, bucket_name, object_key_, f)
        c == Call("gateway", "get_object", <<bucket_name, object_key_>>, f,
                   IF f \in {"ConnectionError", "hang"} THEN 0 ELSE r.http, "")
        content == r.text
        preview == IF TextLen(content) > PreviewLen
                   THEN TextDots(TextPrefix(content, PreviewLen))
                   ELSE content
    IN  IF f = "hang" THEN GwOutcome(Hang, <<c>>, st)
        ELSE IF f = "ConnectionError" THEN GwOutcome(ReadFailed([exc |-> exc]), <<c>>, st)
        ELSE IF r.http = 200
        THEN GwOutcome([success |-> TRUE,
                        content |-> preview,
                        size |-> Bytes(TextLen(preview)),
                        last_modified |-> "Last-Modified"],
                       <<c>>, st)
        ELSE GwOutcome(ReadFailed([http |-> r.http, text |-> exc]), <<c>>, st)

read_bucket_object(bucket_name, object_key_, st, f, exc) ==
    LET r == GwGetObject(st, bucket_name, object_key_, f)
        c == Call("gateway", "get_object", <<bucket_name, object_key_>>, f,
                   IF f \in {"ConnectionError", "hang"} THEN 0 ELSE r.http, "")
        content == r.text
    IN  IF f = "hang" THEN GwOutcome(Hang, <<c>>, st)
        ELSE IF f = "ConnectionError" THEN GwOutcome(ReadFailed([exc |-> exc]), <<c>>, st)
        ELSE IF r.http = 200
        THEN GwOutcome([success |-> TRUE,
                        content |-> IF TextLen(content) > PreviewLen
                                    THEN TextDots(TextPrefix(content, PreviewLen))
                                    ELSE content,
                        size |-> Bytes(TextLen(content)),
                        last_modified |-> "Last-Modified"],
                       <<c>>, st)
        ELSE GwOutcome(ReadFailed([http |-> r.http, text |-> exc]), <<c>>, st)

DeleteFailed(detail) ==
    [success |-> FALSE, message |-> [text |-> "Failed to delete object", detail |-> detail]]

delete_bucket_object(bucket_name, object_key_, st, f, exc) ==
    LET r == GwDeleteObject(st, bucket_name, object_key_, f)
        c == Call("gateway", "delete_object", <<bucket_name, object_key_>>, f,
                   IF f \in {"ConnectionError", "hang"} THEN 0 ELSE r.http, "")
    IN  IF f = "hang" THEN GwOutcome(Hang, <<c>>, st)
        ELSE IF f = "ConnectionError" THEN GwOutcome(DeleteFailed([exc |-> exc]), <<c>>, st)
        ELSE IF r.http \in {200, 204}
        THEN GwOutcome([success |-> TRUE,
                        message |-> [text |-> "deleted", key |-> object_key_,
                                     bucket |-> bucket_name]],
                       <<c>>, r.store)
        ELSE GwOutcome(DeleteFailed([http |-> r.http]), <<c>>, r.store)

(***************************************************************************)
(* get_s3_operations: the boto3 listings.                                  *)
(***************************************************************************)
\* what a boto3 call meets: an answer, a ClientError with the given error
\* code, or botocore's EndpointConnectionError (which is no ClientError)
ListFaults == {"none", "NoSuchBucket", "AccessDenied", "EndpointConnectionError"}

OpRecord(type, bucket, object, size, statusCode) ==
    [type |-> type, bucket |-> bucket, object |-> object, size |-> size,
     statusCode |-> statusCode]

\* the records of one bucket's 'Contents', in the gateway's key order
RECURSIVE ContentsRecords(_, _, _)
ContentsRecords(ks, bucket_name, bucket) ==
    IF ks = <<>> THEN <<>>
    ELSE (IF bucket.objs[Head(ks)] # NoObject
          THEN <<OpRecord("LIST", bucket_name, Head(ks),
                          Bytes(TextLen(bucket.objs[Head(ks)])), 200)>>
          ELSE <<>>)
         \o ContentsRecords(Tail(ks), bucket_name, bucket)

\* the for loop over buckets['Buckets']; aborted when an exception other than
\* ClientError leaves list_objects_v2
RECURSIVE list_loop(_, _, _)
list_loop(bs, st, lo) ==
    IF bs = <<>> THEN [aborted |-> FALSE, ops |-> <<>>, calls |-> <<>>]
    ELSE LET b == Head(bs)
             c == Call("gateway", "list_objects", <<b>>, lo[b], 0, "")
         IN  IF ~st[b].exists THEN list_loop(Tail(bs), st, lo)
             ELSE IF lo[b] = "EndpointConnectionError"
             THEN [aborted |-> TRUE, ops |-> <<>>, calls |-> <<c>>]
             ELSE LET rest == list_loop(Tail(bs), st, lo)
                      mine ==
                          IF lo[b] = "none" THEN ContentsRecords(KeyOrder, b, st[b])
                          ELSE <<OpRecord("LIST", b, <<>>, <<>>,
                                          IF lo[b] = "NoSuchBucket" THEN 404 ELSE 500)>>
                  IN  [aborted |-> rest.aborted, ops |-> mine \o rest.ops,
                       calls |-> <<c>> \o rest.calls]

error_op == <<OpRecord("ERROR", "", <<>>, <<>>, 500)>>
info_op == <<OpRecord("INFO", "", <<>>, <<>>, 200)>>

get_s3_operations(st, lb, lo) ==
    LET c == Call("gateway", "list_buckets", <<>>, lb, 0, "")
        loop == list_loop(BucketOrder, st, lo)
    IN  IF lb # "none" THEN Outcome(error_op, <<c>>)
        ELSE IF loop.aborted THEN Outcome(error_op, <<c>> \o loop.calls)
        ELSE IF loop.ops = <<>> THEN Outcome(info_op, <<c>> \o loop.calls)
        ELSE Outcome(loop.ops, <<c>> \o loop.calls)

(***************************************************************************)
(* Requests and responses.                                                 *)
(***************************************************************************)
Methods == {"GET", "POST", "DELETE"}

\* the size_kb query parameter: absent, an integer, or text that is no integer
SizeParam(kind, n) == [kind |-> kind, n |-> n]
SizeParams == {SizeParam("absent", 0), SizeParam("int", 1), SizeParam("text", 0)}

\* request bodies a client may send
Bodies == {NoBody} \cup {MkText("body", n) : n \in MaxBodyLen..MaxBodyLen}

\* texts an exception or an error answer may carry
ExcTexts == {"exc-text-1", "exc-text-2"}

ContainerPaths ==
    UNION {{<<"containers", n>>, <<"api", "containers", n>>,
            <<"containers", n, "health">>, <<"api", "containers", n, "health">>}
           : n \in ReqNames}

ObjectPaths ==
    {<<"api", "s3", "buckets", b, "objects">> \o k : b \in Buckets, k \in Keys}

OtherPaths ==
    {<<"health">>, <<"api", "health">>, <<"s3-operations">>, <<"api", "s3-operations">>,
     <<"containers">>, <<"api", "containers">>, <<"api", "docs">>,
     <<"api", "docs", "openapi.json">>, <<"health", "">>, <<"">>,
     <<"api", "containers", "master1", "extra">>,
     <<"api", "s3", "buckets", "demo", "other", "file.txt">>,
     <<"api", "s3", "buckets", "demo", "objects">>}

ReqPaths == ContainerPaths \cup ObjectPaths \cup OtherPaths

NoReq == [method |-> "", path |-> <<>>, size |-> SizeParam("absent", 0), body |-> NoBody]

Resp(inv, code, body) == [inv |-> inv, code |-> code, body |-> body]

\* send_error(500, f"Internal server error: {str(e)}")
InternalError(exc) == [text |-> "Internal server error", detail |-> exc]

\* calls of the handler invocation inv
Tag(cs, inv) == [i \in 1..Len(cs) |-> [inv |-> inv] @@ cs[i]]

TypeOK ==
    /\ engine \in [EngineContainers -> {"running", "exited"}]
    /\ pc \in {"idle", "dispatch", "done", "hung"}
    /\ pass \in {1, 2}
    /\ req.method \in Methods \cup {""}

Init ==
    /\ engine \in [EngineContainers -> {"running", "exited"}]
    /\ store = [b \in Buckets |-> NoBucket]
    /\ pc = "idle"
    /\ req = NoReq
    /\ pass = 1
    /\ calls = <<>>
    /\ resps = <<>>

\* a request arrives; the server handles one request at a time
Receive ==
    /\ pc = "idle"
    /\ \E m \in Methods, path \in ReqPaths, size \in SizeParams, body \in Bodies :
          /\ (size.kind # "absent" \/ body # NoBody) =>
                 (m = "POST" /\ path \in ObjectPaths)
          /\ req' = [method |-> m, path |-> path, size |-> size, body |-> body]
    /\ pc' = "dispatch"
    /\ pass' = 1
    /\ calls' = <<>>
    /\ resps' = <<>>
    /\ UNCHANGED <<engine, store>>

\* the response is out and the connection closed: the server waits for the
\* next request
Finish ==
    /\ pc = "done"
    /\ pc' = "idle"
    /\ req' = NoReq
    /\ pass' = 1
    /\ calls' = <<>>
    /\ resps' = <<>>
    /\ UNCHANGED <<engine, store>>

Routed == Dispatch(req.method, req.path)

\* the handler of the running chain is selected
At(h) == pc = "dispatch" /\ Routed.h = h

\* the handler returns: do_GET goes on to its second if/elif chain (lines
\* 68-93 repeat lines 41-66), do_POST and do_DELETE are finished
Return ==
    IF req.method = "GET" /\ pass = 1
    THEN pc' = "dispatch" /\ pass' = 2
    ELSE pc' = "done" /\ pass' = pass

Reply(code, body) == resps' = Append(resps, Resp(pass, code, body))

handle_health_check ==
    /\ At("handle_health_check")
    /\ Reply(200, [status |-> "healthy", service |-> "SeaweedFS Cluster API"])
    /\ Return
    /\ UNCHANGED <<engine, store, req, calls>>

serve_openapi_spec ==
    /\ At("serve_openapi_spec")
    /\ Reply(200, [doc |-> "openapi"])
    /\ Return
    /\ UNCHANGED <<engine, store, req, calls>>

\* the path is exactly /api/docs here, so the openapi.json branch of
\* handle_api_docs is taken only for a query string ending that way, which
\* no modelled request carries
handle_api_docs ==
    /\ At("handle_api_docs")
    /\ Reply(200, [doc |-> "swagger-ui"])
    /\ Return
    /\ UNCHANGED <<engine, store, req, calls>>

send_error_404 ==
    /\ At("send_error_404")
    /\ Reply(404, [text |-> "Endpoint not found"])
    /\ Return
    /\ UNCHANGED <<engine, store, req, calls>>

handle_s3_operations ==
    /\ At("handle_s3_operations")
    /\ \E lb \in ListFaults \ {"NoSuchBucket"}, lo \in [Buckets -> ListFaults] :
          LET o == get_s3_operations(store, lb, lo)
          IN  /\ calls' = calls \o Tag(o.calls, pass)
              /\ Reply(200, [ops |-> o.ret])
    /\ Return
    /\ UNCHANGED <<engine, store, req>>

handle_container_status ==
    /\ At("handle_container_status")
    /\ \E fault \in InspectFaults, exc \in ExcTexts :
          LET o == get_container_status(Routed.a, engine, fault)
          IN  /\ calls' = calls \o Tag(o.calls, pass)
              /\ IF o.ret = "RAISE" THEN Reply(500, InternalError(exc))
                 ELSE Reply(200, [text |-> o.ret])
    /\ Return
    /\ UNCHANGED <<engine, store, req>>

handle_container_start ==
    /\ At("handle_container_start")
    /\ \E fault \in MutateFaults, exc \in ExcTexts :
          LET o == start_container(Routed.a, engine, fault)
          IN  /\ calls' = calls \o Tag(o.calls, pass)
              /\ engine' = EngineAfter(get_full_container_name(Routed.a), engine,
                                       "running", fault)
              /\ IF o.ret = "RAISE" THEN Reply(500, InternalError(exc))
                 ELSE Reply(200, [text |-> o.ret])
    /\ Return
    /\ UNCHANGED <<store, req>>

handle_container_stop ==
    /\ At("handle_container_stop")
    /\ \E fault \in MutateFaults, exc \in ExcTexts :
          LET o == stop_container(Routed.a, engine, fault)
          IN  /\ calls' = calls \o Tag(o.calls, pass)
              /\ engine' = EngineAfter(get_full_container_name(Routed.a), engine,
                                       "exited", fault)
              /\ IF o.ret = "RAISE" THEN Reply(500, InternalError(exc))
                 ELSE Reply(200, [text |-> o.ret])
    /\ Return
    /\ UNCHANGED <<store, req>>

handle_container_health ==
    /\ At("handle_container_health")
    /\ \E fault \in InspectFaults, probe \in ProbeOutcomes, exc \in ExcTexts :
          LET o == check_container_health(Routed.a, engine, fault, probe)
          IN  /\ calls' = calls \o Tag(o.calls, pass)
              /\ IF o.ret = "RAISE" THEN Reply(500, InternalError(exc))
                 ELSE Reply(200, [status |-> o.ret, container |-> Routed.a])
    /\ Return
    /\ UNCHANGED <<engine, store, req>>

\* a gateway operation ended: with a result dict, or never (a call hangs)
GatewayDone(o, okCode, failCode) ==
    /\ calls' = calls \o Tag(o.calls, pass)
    /\ store' = o.store
    /\ IF o.ret = Hang
       THEN pc' = "hung" /\ pass' = pass /\ resps' = resps
       ELSE Reply(IF o.ret.success THEN okCode ELSE failCode, o.ret) /\ Return

handle_s3_object_create ==
    /\ At("handle_s3_object_create")
    /\ IF req.size.kind = "text"
       THEN \E exc \in ExcTexts :
               /\ Reply(500, InternalError(exc))
               /\ Return
               /\ UNCHANGED <<store, calls>>
       ELSE \E f1 \in GwFaults, f2 \in GwFaults, exc \in ExcTexts :
               LET size_kb == IF req.size.kind = "int" THEN req.size.n ELSE DefaultSizeKb
               IN  GatewayDone(create_bucket_object(Routed.a, Routed.b, size_kb,
                                                    store, f1, f2, exc), 200, 400)
    /\ UNCHANGED <<engine, req>>

handle_s3_object_read ==
    /\ At("handle_s3_object_read")
    /\ \E f \in GwFaults, exc \in ExcTexts :
          GatewayDone(read_bucket_object(Routed.a, Routed.b, store, f, exc), 200, 404)
    /\ UNCHANGED <<engine, req>>

handle_s3_object_delete ==
    /\ At("handle_s3_object_delete")
    /\ \E f \in GwFaults, exc \in ExcTexts :
          GatewayDone(delete_bucket_object(Routed.a, Routed.b, store, f, exc), 200, 400)
    /\ UNCHANGED <<engine, req>>

Next ==
    \/ Receive
    \/ handle_health_check
    \/ serve_openapi_spec
    \/ handle_api_docs
    \/ send_error_404
    \/ handle_s3_operations
    \/ handle_container_status
    \/ handle_container_start
    \/ handle_container_stop
    \/ handle_container_health
    \/ handle_s3_object_create
    \/ handle_s3_object_read
    \/ handle_s3_object_delete
    \/ Finish

Spec == Init /\ [][Next]_vars

(***************************************************************************)
(* Vocabulary of the properties.                                           *)
(***************************************************************************)
Range(s) == {s[i] : i \in 1..Len(s)}

\* the sequence of operation names of a call sequence
Ops(cs) == [i \in 1..Len(cs) |-> cs[i].op]

\* the handler the request in flight is routed to
Handles(h) == req # NoReq /\ Routed.h = h

\* the other path family's path for the same resource
Twin(path) == IF path[1] = "api" THEN Tail(path) ELSE <<"api">> \o path

\* the engine answered the state query with the state of a known container
ReportsExisting(c) == c.fault = "none" /\ c.http = 200

\* the name n contains the word w
Mentions(n, w) == \E i \in 1..Len(Spelling(n)) : Spelling(n)[i] = w

\* the words by which a name is classified as master, volume, filer or gateway
TypeWords == {"filer", "master", "volume", "s3"}
Unclassified(n) == \A w \in TypeWords : ~Mentions(n, w)

\* the calls and the answer of invocation inv of the handler
CallsOf(inv) == SelectSeq(calls, LAMBDA c : c.inv = inv)
Probes(inv) == SelectSeq(calls, LAMBDA c : c.inv = inv /\ c.op = "probe")
FoundRunning(inv) ==
    \E c \in Range(calls) : c.inv = inv /\ c.op = "inspect" /\ c.out = "running"

(***************************************************************************)
(* C1: in check_container_health a status query that returned 'stopped' or *)
(* 'not_found' makes the verdict of that invocation 'unhealthy' and no     *)
(* probe is issued in it; every probe directly follows a status query of   *)
(* the same invocation that returned 'running'.                            *)
(***************************************************************************)
C1_NotRunningIsUnhealthy ==
    /\ \A j \in 1..Len(calls) :
          calls[j].op = "probe" =>
              /\ j > 1
              /\ calls[j - 1].op = "inspect"
              /\ calls[j - 1].inv = calls[j].inv
              /\ calls[j - 1].out = "running"
    /\ Handles("handle_container_health") =>
          \A r \in Range(resps), c \in Range(calls) :
              (c.inv = r.inv /\ c.op = "inspect" /\ c.out \in {"stopped", "not_found"}) =>
                  /\ r.code = 200
                  /\ r.body.status = "unhealthy"
                  /\ \A d \in Range(calls) : d.inv = r.inv => d.op # "probe"

\* a health request whose first invocation met a non-running answer and was
\* answered 'unhealthy', and whose second invocation probed a running node
C1_Witness ==
    /\ pc = "done"
    /\ Handles("handle_container_health")
    /\ \E c \in Range(calls) : c.inv = 1 /\ c.op = "inspect" /\ c.out = "not_found"
    /\ \E r \in Range(resps) : r.inv = 1 /\ r.code = 200 /\ r.body.status = "unhealthy"
    /\ \E c \in Range(calls) : c.inv = 2 /\ c.op = "probe" /\ c.out = "healthy"

(***************************************************************************)
(* C2: for a container the engine does not know (it answers the state      *)
(* query with an error body, HTTP 404), GET /api/containers/{name} answers *)
(* 'not_found' and GET /api/containers/{name}/health answers 'unhealthy'.  *)
(***************************************************************************)
C2_UnknownIsNotFound ==
    (req.method = "GET" /\ req.path # <<>> /\ req.path[1] = "api") =>
        \A r \in Range(resps), c \in Range(calls) :
            (c.inv = r.inv /\ c.op = "inspect" /\ c.fault = "none" /\ c.http = 404) =>
                /\ r.code = 200
                /\ Handles("handle_container_status") => r.body.text = "not_found"
                /\ Handles("handle_container_health") => r.body.status = "unhealthy"

(***************************************************************************)
(* C3: get_container_status returns 'running' exactly when the engine      *)
(* reports the container as existing with State.Running true, and returns  *)
(* 'stopped' only when the engine reports it as existing and not running.  *)
(***************************************************************************)
C3_StatusMatchesEngine ==
    (req.method = "GET") =>
        \A c \in Range(calls) :
            c.op = "inspect" =>
                /\ c.out = "running" <=>
                      (ReportsExisting(c) /\ engine[c.target[1]] = "running")
                /\ c.out = "stopped" =>
                      (ReportsExisting(c) /\ engine[c.target[1]] = "exited")

(***************************************************************************)
(* C4: start_container returns 'started' and stop_container 'stopped' only *)
(* when the engine answered the mutation call with a success status; an    *)
(* error status, an unknown container or a timeout gives 'failed'.         *)
(***************************************************************************)
C4_MutationSuccessOnly ==
    \A c \in Range(calls) :
        c.op \in {"start", "stop"} =>
            /\ c.out \in {"started", "stopped"} => c.http \in {204, 304}
            /\ (c.http \notin {0, 204, 304} \/ c.fault = "TimeoutExpired") =>
                  c.out = "failed"

(***************************************************************************)
(* C5: an object write into a bucket that does not exist issues, when the  *)
(* gateway answers every call, a first write (failing, bucket missing),    *)
(* then one bucket-create, then one retried write, and nothing else.       *)
(***************************************************************************)
C5_WriteCreateRetry ==
    [][(/\ At("handle_s3_object_create")
        /\ req.path \in ObjectPaths
        /\ req.size.kind # "text"
        /\ ~store[Routed.a].exists
        /\ pc' = "done"
        /\ \A i \in 1..Len(calls') : calls'[i].http # 0)
       => (/\ Ops(calls') = <<"put_object", "put_bucket", "put_object">>
           /\ calls'[1].http = 404)]_vars

(***************************************************************************)
(* C6: a successful object create with a request body stores that body:    *)
(* the following read of the same bucket and key returns content equal to  *)
(* the body and a size equal to its length; the size hint only matters     *)
(* when no body is sent.                                                   *)
(***************************************************************************)
C6_RoundTrip ==
    (/\ pc = "done"
     /\ Handles("handle_s3_object_create")
     /\ req.path \in ObjectPaths
     /\ req.body # NoBody
     /\ resps[1].code = 200) =>
        LET got == read_bucket_object(Routed.a, Routed.b, store, "none", "").ret
        IN  /\ got.success
            /\ got.content = req.body
            /\ got.size = Bytes(TextLen(req.body))

(***************************************************************************)
(* C7: without a body, a successful create with size_kb = n >= 1 reports   *)
(* a size of exactly n * 1024 bytes, the length of the filler content.     *)
(***************************************************************************)
C7_FillerHasRequestedSize ==
    (/\ pc = "done"
     /\ Handles("handle_s3_object_create")
     /\ req.path \in ObjectPaths
     /\ req.body = NoBody
     /\ req.size.kind = "int" /\ req.size.n >= 1
     /\ resps[1].code = 200) =>
        /\ TextLen(generate_lorem_ipsum(req.size.n)) = req.size.n * KB
        /\ resps[1].body.size = Bytes(req.size.n * KB)

(***************************************************************************)
(* C8: get_s3_operations returns exactly one INFO record when the gateway  *)
(* has no bucket; with buckets it returns exactly one LIST record with     *)
(* statusCode 200 per object and exactly one error record per bucket whose *)
(* listing fails, and nothing else.                                        *)
(***************************************************************************)
ExistingBuckets == {b \in Buckets : store[b].exists}
ListingFailed(inv) ==
    {b \in ExistingBuckets :
        \A c \in Range(calls) :
            (c.inv = inv /\ c.op = "list_objects" /\ c.target = <<b>>) => c.fault # "none"}
RECURSIVE SumObjects(_)
SumObjects(B) ==
    IF B = {} THEN 0
    ELSE LET b == CHOOSE x \in B : TRUE
         IN  ObjectCount(store[b]) + SumObjects(B \ {b})
IsListOk(rec) == rec.type = "LIST" /\ rec.statusCode = 200
IsError(rec) == rec.type \in {"LIST", "ERROR"} /\ rec.statusCode \in {404, 500}
CountRecs(ops, ok) ==
    Cardinality({i \in 1..Len(ops) : IF ok THEN IsListOk(ops[i]) ELSE IsError(ops[i])})

C8_OperationsCount ==
    Handles("handle_s3_operations") =>
        \A r \in Range(resps) :
            (\E c \in Range(calls) : c.inv = r.inv /\ c.op = "list_buckets" /\ c.fault = "none") =>
                IF ExistingBuckets = {} THEN r.body.ops = info_op
                ELSE /\ CountRecs(r.body.ops, TRUE)
                          = SumObjects(ExistingBuckets \ ListingFailed(r.inv))
                     /\ CountRecs(r.body.ops, FALSE) = Cardinality(ListingFailed(r.inv))
                     /\ Len(r.body.ops)
                          = CountRecs(r.body.ops, TRUE) + CountRecs(r.body.ops, FALSE)

(***************************************************************************)
(* C9: for every container name and each of GET, POST and DELETE, the bare *)
(* path and the /api/ path of a container (and of its health sub-path)     *)
(* select the same handler with the same name.  The first conjunct is     *)
(* about the request in flight; the second goes through further names     *)
(* (among them the route words themselves) whenever the server is idle.    *)
(***************************************************************************)
RouteNames == ReqNames \cup {"health", "containers", "api"}

C9_BothFamiliesSameOperation ==
    /\ req.path \in ContainerPaths =>
          /\ Routed = Dispatch(req.method, Twin(req.path))
          /\ Routed.a = (IF req.path[1] = "api" THEN req.path[3] ELSE req.path[2])
    /\ pc = "idle" =>
          \A m \in Methods, n \in RouteNames :
              /\ Dispatch(m, <<"containers", n>>) = Dispatch(m, <<"api", "containers", n>>)
              /\ Dispatch(m, <<"containers", n, "health">>)
                    = Dispatch(m, <<"api", "containers", n, "health">>)

\* a health request on the bare path was answered for the node of the path
C9_Witness ==
    /\ pc = "done"
    /\ req.method = "GET"
    /\ req.path = <<"containers", "master1", "health">>
    /\ \E r \in Range(resps) : r.code = 200 /\ r.body.container = "master1"

(***************************************************************************)
(* C10: GET /api/health, GET /api/s3-operations, GET /containers and       *)
(* GET /api/containers are served: none is answered 'Endpoint not found',  *)
(* and the /api/ paths are routed like their bare twins.                   *)
(***************************************************************************)
C10_SurfaceServed ==
    (/\ req.method = "GET"
     /\ req.path \in {<<"api", "health">>, <<"api", "s3-operations">>,
                      <<"containers">>, <<"api", "containers">>}) =>
        /\ Routed.h # "send_error_404"
        /\ \A r \in Range(resps) : r.code # 404

(***************************************************************************)
(* C11: a health check of a running node whose name carries none of the    *)
(* type words answers 'unknown' and issues no probe, and 'unknown' is      *)
(* answered for no other node.                                             *)
(***************************************************************************)
C11_UnclassifiedIsUnknown ==
    Handles("handle_container_health") =>
        \A r \in Range(resps) :
            /\ (FoundRunning(r.inv) /\ Unclassified(Routed.a)) =>
                  /\ r.code = 200
                  /\ r.body.status = "unknown"
                  /\ Probes(r.inv) = <<>>
            /\ (r.code = 200 /\ r.body.status = "unknown") => Unclassified(Routed.a)

(***************************************************************************)
(* C12: a health check of a running master, volume, filer or gateway       *)
(* issues exactly one probe, to the fixed port and path of the node's type *)
(* on the host of the node's full container name, and answers 'healthy'    *)
(* for an accepted status (200, and 403 too for a gateway) and 'unhealthy' *)
(* for every other outcome of the probe.                                   *)
(***************************************************************************)
NodeType(n) ==
    IF Mentions(n, "filer") THEN "filer"
    ELSE IF Mentions(n, "master") THEN "master"
    ELSE IF Mentions(n, "volume") THEN "volume"
    ELSE IF Mentions(n, "s3") THEN "gateway"
    ELSE "unknown"

TypeTarget(n) ==
    CASE NodeType(n) = "master" -> ProbeUrl(get_full_container_name(n), 9333, "/cluster/status")
      [] NodeType(n) = "volume" -> ProbeUrl(get_full_container_name(n), 8080, "/status")
      [] NodeType(n) = "filer" -> ProbeUrl(get_full_container_name(n), 8888, "/")
      [] OTHER -> ProbeUrl(get_full_container_name(n), 8333, "")

Accepted(n, c) == c.http = 200 \/ (NodeType(n) = "gateway" /\ c.http = 403)

C12_OneProbeToFixedTarget ==
    Handles("handle_container_health") =>
        \A r \in Range(resps) :
            (FoundRunning(r.inv) /\ ~Unclassified(Routed.a)) =>
                /\ Len(Probes(r.inv)) = 1
                /\ Probes(r.inv)[1].target = TypeTarget(Routed.a)
                /\ r.code = 200
                /\ r.body.status =
                      (IF Accepted(Routed.a, Probes(r.inv)[1]) THEN "healthy" ELSE "unhealthy")

(***************************************************************************)
(* C13: the node type is decided by the words a name contains, filer       *)
(* before master before volume before the gateway marker: a running node   *)
(* whose name contains one of the first three is probed on the port of     *)
(* that type; and a health check asked for by a full container name makes  *)
(* the calls and gives the answer that the check asked for by its short    *)
(* name makes and gives in the same engine state.                          *)
(***************************************************************************)
TypePort(t) ==
    CASE t = "master" -> 9333
      [] t = "volume" -> 8080
      [] t = "filer" -> 8888
      [] OTHER -> 8333

\* the names of ReqNames that are the full container name of another one
QualifiedNames ==
    {n \in ReqNames : \E s \in ReqNames : s # n /\ get_full_container_name(s) = n}
ShortOf(n) == CHOOSE s \in ReqNames : s # n /\ get_full_container_name(s) = n

\* invocation inv asked by short name s could have ended as response r did
SameAsShort(s, r) ==
    \E probe \in ProbeOutcomes :
        LET o == check_container_health(s, engine, CallsOf(r.inv)[1].fault, probe)
        IN  /\ Ops(o.calls) = Ops(CallsOf(r.inv))
            /\ IF o.ret = "RAISE" THEN r.code = 500
               ELSE r.code = 200 /\ r.body.status = o.ret

C13_ClassifiedBySubstring ==
    Handles("handle_container_health") =>
        \A r \in Range(resps) :
            /\ (FoundRunning(r.inv) /\ NodeType(Routed.a) \in {"filer", "master", "volume"}) =>
                  /\ Len(Probes(r.inv)) = 1
                  /\ Probes(r.inv)[1].target[2] = TypePort(NodeType(Routed.a))
            /\ Routed.a \in QualifiedNames => SameAsShort(ShortOf(Routed.a), r)

(***************************************************************************)
(* C14: get_full_container_name gives each of the eight short names of     *)
(* the static table its full container name and every other name back      *)
(* unchanged, and applied to its own result it changes nothing: every      *)
(* engine call of a request is addressed that way, and the same holds for  *)
(* all names of the table and all names a request may carry.               *)
(***************************************************************************)
StaticTable ==
    [master1 |-> "seaweedfs-ha-demo-master1-1",
     master2 |-> "seaweedfs-ha-demo-master2-1",
     master3 |-> "seaweedfs-ha-demo-master3-1",
     volume1 |-> "seaweedfs-ha-demo-volume1-1",
     volume2 |-> "seaweedfs-ha-demo-volume2-1",
     volume3 |-> "seaweedfs-ha-demo-volume3-1",
     filer1 |-> "seaweedfs-ha-demo-filer1-1",
     filer2 |-> "seaweedfs-ha-demo-filer2-1"]

Resolved(n) == IF n \in DOMAIN StaticTable THEN StaticTable[n] ELSE n

ResolvableNames ==
    DOMAIN StaticTable \cup ReqNames \cup {StaticTable[n] : n \in DOMAIN StaticTable}

C14_ResolveTable ==
    /\ \A c \in Range(calls) : c.to = "engine" => c.target = <<Resolved(Routed.a)>>
    /\ pc = "idle" =>
          \A n \in ResolvableNames :
              /\ get_full_container_name(n) = Resolved(n)
              /\ get_full_container_name(get_full_container_name(n))
                    = get_full_container_name(n)

\* a start request by the short name filer1 reached the engine under the
\* full container name and started the container
C14_Witness ==
    /\ pc = "done"
    /\ Handles("handle_container_start")
    /\ Routed.a = "filer1"
    /\ calls[1].target = <<"seaweedfs-ha-demo-filer1-1">>
    /\ calls[1].out = "started"
    /\ engine["seaweedfs-ha-demo-filer1-1"] = "running"

(***************************************************************************)
(* C15: whenever the engine status query fails (curl cannot be run, exits  *)
(* non-zero, times out, prints nothing, prints something that is not JSON, *)
(* or prints JSON that is no object or has a null State),                  *)
(* get_container_status returns 'not_found'; and a status request is never *)
(* answered 500.                                                           *)
(***************************************************************************)
C15_StatusQueryFailsClosed ==
    /\ \A c \in Range(calls) :
          (c.op = "inspect" /\ c.fault # "none") => c.out = "not_found"
    /\ Handles("handle_container_status") => \A r \in Range(resps) : r.code # 500

(***************************************************************************)
(* C16: no request waits for ever on a downstream party: a call that is    *)
(* never answered ends by its timeout, so the handler is never left        *)
(* blocked in a call, and a handled request has its response.              *)
(***************************************************************************)
C16_NoCallBlocksForEver ==
    /\ pc # "hung"
    /\ pc = "done" => resps # <<>>

(***************************************************************************)
(* C17: an object create, read or delete, or an s3-operations request,     *)
(* that finds the gateway unreachable (a call to it ends in a connection   *)
(* error) is answered 503, not 200, 400 or 404.                            *)
(***************************************************************************)
Unreachable(c) ==
    c.to = "gateway" /\ c.fault \in {"ConnectionError", "EndpointConnectionError"}

C17_UnreachableIs503 ==
    \A r \in Range(resps) :
        (\E c \in Range(calls) : c.inv = r.inv /\ Unreachable(c)) => r.code = 503

(***************************************************************************)
(* C18: an object read or delete that the gateway answers with not-found   *)
(* (missing bucket or missing key) is answered 404 with success false; in  *)
(* particular such a delete is not answered 400.                           *)
(***************************************************************************)
C18_MissingIs404 ==
    \A r \in Range(resps), c \in Range(calls) :
        (/\ req.path \in ObjectPaths
         /\ c.inv = r.inv
         /\ c.op \in {"get_object", "delete_object"}
         /\ c.fault = "none"
         /\ c.http = 404) =>
            /\ r.code = 404
            /\ ~r.body.success

(***************************************************************************)
(* C19: a request whose method and path are not an endpoint of the HTTP    *)
(* surface is answered 404 and no downstream party is called for it.       *)
(* Container paths with a segment after the name (other than the health    *)
(* sub-path of GET), storage paths whose fifth segment is not 'objects'    *)
(* and object paths with an empty key are no endpoints.                    *)
(***************************************************************************)
IsEndpoint(m, path) ==
    LET api == path[1] = "api"
        q == IF api THEN Tail(path) ELSE path
        bucket == api /\ Len(q) >= 3 /\ q[1] = "s3" /\ q[2] = "buckets" /\ q[3] # ""
    IN  \/ m = "GET" /\ q \in {<<"health">>, <<"containers">>, <<"s3-operations">>}
        \/ m = "GET" /\ api /\ q \in {<<"docs">>, <<"docs", "openapi.json">>}
        \/ Len(q) = 2 /\ q[1] = "containers" /\ q[2] # ""
        \/ m = "GET" /\ Len(q) = 3 /\ q[1] = "containers" /\ q[2] # "" /\ q[3] = "health"
        \/ m \in {"GET", "DELETE"} /\ bucket /\ Len(q) = 3
        \/ m = "GET" /\ bucket /\ Len(q) = 4 /\ q[4] = "objects"
        \/ bucket /\ Len(q) >= 5 /\ q[4] = "objects" /\ q[5] # ""

C19_UnknownPathIs404 ==
    (req # NoReq /\ ~IsEndpoint(req.method, req.path)) =>
        /\ calls = <<>>
        /\ \A r \in Range(resps) : r.code = 404

(***************************************************************************)
(* C20: the status and body of a response do not vary with the text of an  *)
(* exception met while the request was handled.  The text is an input of   *)
(* the handlers that reaches a response only by being copied into it, so   *)
(* two runs that differ in the text alone answer alike exactly when no     *)
(* response carries the text.                                              *)
(***************************************************************************)
CarriesExcText(body) ==
    \/ "detail" \in DOMAIN body /\ body.detail \in ExcTexts
    \/ /\ "message" \in DOMAIN body
       /\ "detail" \in DOMAIN body.message
       /\ "exc" \in DOMAIN body.message.detail
       /\ body.message.detail.exc \in ExcTexts
    \/ /\ "error" \in DOMAIN body
       /\ "exc" \in DOMAIN body.error
       /\ body.error.exc \in ExcTexts

C20_NoExceptionTextInResponse ==
    \A r \in Range(resps) : ~CarriesExcText(r.body)

(***************************************************************************)
(* C21: in get_s3_operations, once the buckets are listed, a bucket whose  *)
(* object listing fails (no-such-bucket, another gateway error, or a       *)
(* connection failure) has exactly one record, with statusCode 404 for     *)
(* no-such-bucket and 500 otherwise, and every other bucket has the        *)
(* records of its objects.                                                 *)
(***************************************************************************)
RecsOf(ops, b) == SelectSeq(ops, LAMBDA rec : rec.bucket = b)
ListCalls(inv, b) ==
    SelectSeq(calls, LAMBDA c : c.inv = inv /\ c.op = "list_objects" /\ c.target = <<b>>)
ListFailedFor(inv, b) == ListCalls(inv, b) # <<>> /\ ListCalls(inv, b)[1].fault # "none"

C21_ListingFailureIsLocal ==
    Handles("handle_s3_operations") =>
        \A r \in Range(resps) :
            (\E c \in Range(calls) : c.inv = r.inv /\ c.op = "list_buckets" /\ c.fault = "none") =>
                \A b \in ExistingBuckets :
                    LET recs == RecsOf(r.body.ops, b)
                    IN  IF ListFailedFor(r.inv, b)
                        THEN /\ Len(recs) = 1
                             /\ recs[1].statusCode =
                                   (IF ListCalls(r.inv, b)[1].fault = "NoSuchBucket"
                                    THEN 404 ELSE 500)
                        ELSE /\ Len(recs) = ObjectCount(store[b])
                             /\ \A i \in 1..Len(recs) : recs[i].statusCode = 200

(***************************************************************************)
(* C22: handling one object-write request issues at most one bucket-create *)
(* call and at most two object-write calls, whatever the gateway answers;  *)
(* and when the gateway answers every call the handler ends with its       *)
(* response after them.                                                    *)
(***************************************************************************)
CountOp(op) == Cardinality({i \in 1..Len(calls) : calls[i].op = op})

C22_BoundedWriteCalls ==
    Handles("handle_s3_object_create") =>
        /\ CountOp("put_bucket") <= 1
        /\ CountOp("put_object") <= 2
        /\ Len(calls) <= 3
        /\ pc = "hung" => calls[Len(calls)].fault = "hang"
        /\ (calls # <<>> /\ \A c \in Range(calls) : c.fault # "hang") =>
              (pc = "done" /\ Len(resps) = 1)

\* a write the gateway rejected: both calls were made and answered, the
\* request ended with a failure response and nothing was tried again
C22_Witness ==
    /\ pc = "done"
    /\ Handles("handle_s3_object_create")
    /\ Ops(calls) = <<"put_bucket", "put_object">>
    /\ calls[2].http = 500
    /\ resps[1].code = 400

(***************************************************************************)
(* C23: handling one request for a single node (GET status, GET health,    *)
(* POST start, DELETE stop) makes at most two downstream calls: at most    *)
(* one engine status query, and after it at most one probe or mutation.    *)
(***************************************************************************)
NodeHandlers ==
    {"handle_container_status", "handle_container_health",
     "handle_container_start", "handle_container_stop"}

C23_AtMostTwoCalls ==
    (req.path \in ContainerPaths /\ Routed.h \in NodeHandlers) =>
        /\ Len(calls) <= 2
        /\ CountOp("inspect") <= 1
        /\ CountOp("probe") + CountOp("start") + CountOp("stop") <= 1
        /\ \A i \in 1..Len(calls) : calls[i].op = "inspect" => i = 1

(***************************************************************************)
(* C24: a successful read_bucket_object returns the stored content itself  *)
(* when it has at most 500 characters and otherwise its first 500          *)
(* characters followed by '...', and reports as size the length of the     *)
(* full stored content.  The first conjunct is about the read in flight;   *)
(* the second reads objects of lengths around 500 whenever the server is   *)
(* idle.                                                                   *)
(***************************************************************************)
Preview(t) ==
    IF TextLen(t) <= 500 THEN t ELSE [src |-> t.src, len |-> 500, dots |-> TRUE]

ReadShows(got, full) ==
    /\ got.success
    /\ got.content = Preview(full)
    /\ got.size = Bytes(TextLen(full))

StoredLens == {1, 499, 500, 501, 503, 892}
Holding(b, k, t) == [store EXCEPT ![b] = [exists |-> TRUE, objs |-> [EmptyBucket.objs EXCEPT ![k] = t]]]

C24_PreviewAndFullSize ==
    /\ Handles("handle_s3_object_read") =>
          \A r \in Range(resps) :
              r.code = 200 =>
                  ReadShows(r.body, GwGetObject(store, Routed.a, Routed.b, "none").text)
    /\ pc = "idle" =>
          \A b \in Buckets, k \in Keys, n \in StoredLens :
              ReadShows(read_bucket_object(b, k, Holding(b, k, MkText("lorem", n)),
                                           "none", "").ret,
                        MkText("lorem", n))

\* an object longer than the preview was read: the answer holds the cut
\* preview with the ellipsis and the size of the whole object
C24_Witness ==
    /\ pc = "done"
    /\ Handles("handle_s3_object_read")
    /\ req.path \in ObjectPaths
    /\ resps[1].code = 200
    /\ resps[1].body.content.dots
    /\ resps[1].body.content.len = 500
    /\ resps[1].body.size = Bytes(TextLen(store[Routed.a].objs[Routed.b]))
    /\ TextLen(store[Routed.a].objs[Routed.b]) > 500

(***************************************************************************)
(* C25: a bucket-create call is made during an object write only after a   *)
(* write of the same request was refused because the bucket does not       *)
(* exist; so a write into an existing bucket makes no bucket-create call,  *)
(* and a request whose write fails without that refusal leaves the set of  *)
(* buckets as it was.                                                      *)
(***************************************************************************)
RefusedForBucket(c) == c.op = "put_object" /\ c.fault = "none" /\ c.http = 404

C25_CreateOnlyAfterFailedWrite ==
    /\ \A j \in 1..Len(calls) :
          calls[j].op = "put_bucket" =>
              \E i \in 1..(j - 1) :
                  calls[i].inv = calls[j].inv /\ RefusedForBucket(calls[i])
    /\ (/\ pc = "done"
        /\ Handles("handle_s3_object_create")
        /\ resps[1].code = 400
        /\ \A c \in Range(calls) : ~RefusedForBucket(c)) =>
           \A c \in Range(calls) : c.op = "put_bucket" => c.http # 200

(***************************************************************************)
(* C26: a GET request is dispatched to one handler once and gets one HTTP  *)
(* response: no handler (send_error included) is invoked a second time     *)
(* for it.                                                                 *)
(***************************************************************************)
C26_GetDispatchedOnce ==
    req.method = "GET" =>
        /\ Len(resps) <= 1
        /\ \A c \in Range(calls) : c.inv = 1
        /\ pc = "done" => Len(resps) = 1

(***************************************************************************)
(* C27: handling a GET request, whatever its path, issues no container     *)
(* start or stop call and no bucket-create, object-write or object-delete  *)
(* call, and leaves the run-state of every container and the content of    *)
(* every bucket unchanged.                                                 *)
(***************************************************************************)
ReadingOps == {"inspect", "probe", "get_object", "list_buckets", "list_objects"}

C27_GetIsReadOnly ==
    [][req.method = "GET" =>
          /\ engine' = engine
          /\ store' = store
          /\ \A c \in Range(calls') : c.op \in ReadingOps]_vars

\* a GET of a stored object was handled: the gateway was asked for the
\* object and answered it, and the object is still stored
C27_Witness ==
    /\ pc = "done"
    /\ req.method = "GET"
    /\ req.path \in ObjectPaths
    /\ calls # <<>>
    /\ \A c \in Range(calls) : c.op = "get_object" /\ c.http = 200
    /\ store[Routed.a].objs[Routed.b] # NoObject

(***************************************************************************)
(* C28: a request on the health sub-path of a node, /containers/{name}/    *)
(* health or /api/containers/{name}/health, leaves the run-state of every  *)
(* container as it was, whatever its method.                               *)
(***************************************************************************)
HealthPaths ==
    {<<"containers", n, "health">> : n \in ReqNames}
        \cup {<<"api", "containers", n, "health">> : n \in ReqNames}

C28_HealthPathKeepsRunState ==
    [][req.path \in HealthPaths => engine' = engine]_vars

(***************************************************************************)
(* C29: get_s3_operations answers with the INFO record only when the       *)
(* gateway has no bucket: whenever a bucket exists, empty or not, the      *)
(* result holds no INFO record.                                            *)
(***************************************************************************)
C29_InfoOnlyWithoutBuckets ==
    Handles("handle_s3_operations") =>
        \A r \in Range(resps) :
            ExistingBuckets # {} =>
                \A i \in 1..Len(r.body.ops) : r.body.ops[i].type # "INFO"

====
